---- MODULE Spec2Model ----
(***************************************************************************)
(* A model of bbopt's BlackBoxOptimizer (src/bbopt/optimizer.py): several  *)
(* operating-system processes, each holding one optimizer object, sharing  *)
(* one data file that is read and rewritten under a portalocker file lock. *)
(*                                                                         *)
(* Python dictionaries are functions (DOMAIN d is the set of keys), lists  *)
(* are sequences.  An example is a dictionary with the keys "values",      *)
(* "memo", "loss", "gain" and "timestamp", each present only once set.     *)
(***************************************************************************)
EXTENDS Integers, Sequences, FiniteSets, TLC

\* ------------------------------------------------------------------ bounds
NumProcs == 2
MaxCommits == 3

Procs == 1..NumProcs

\* ------------------------------------------------------------------ inputs
\* A memo value the caller may remember: a tuple (json turns it into a
\* list) or an object neither json_serialize nor pickle can encode.
TupleMemo == [form |-> "tuple"]
OpaqueMemo == [form |-> "opaque"]

\* A reward handed to minimize / maximize: a plain number, or a numpy
\* array of some rank.
Number(v) == [ndarray |-> FALSE, rank |-> 0, v |-> v]
Array(rank, v) == [ndarray |-> TRUE, rank |-> rank, v |-> v]
Loss(value) == [reward_type |-> "loss", value |-> value]
Gain(value) == [reward_type |-> "gain", value |-> value]

\* The programs driving the sessions.  A behaviour draws its calls from one
\* of these universes: the processes that run, the file format, and the
\* arguments their calls may carry.
StoreScope ==
    [procs |-> Procs, protocols |-> {"pickle"}, backends |-> {"random"},
     names |-> {}, funcs |-> {}, values |-> {}, memos |-> {},
     rewards |-> {Loss(Number(1))}, elapsed |-> {0, 1}, commits |-> NumProcs,
     nonstrings |-> {}, damage |-> FALSE]

CodecScope ==
    [procs |-> {1}, protocols |-> {"json", "pickle"}, backends |-> {"random"},
     names |-> {}, funcs |-> {}, values |-> {}, memos |-> {TupleMemo, OpaqueMemo},
     rewards |-> {Loss(Number(1)), Loss(Array(1, 1))}, elapsed |-> {1},
     commits |-> MaxCommits,
     nonstrings |-> {}, damage |-> FALSE]

ParamsScope ==
    [procs |-> {1}, protocols |-> {"pickle"}, backends |-> {"random"},
     names |-> {"x", "y"}, funcs |-> {"uniform", "choice"}, values |-> {1},
     memos |-> {}, rewards |-> {Loss(Number(1))}, elapsed |-> {1},
     commits |-> MaxCommits - 1,
     nonstrings |-> {}, damage |-> FALSE]

ValuesScope ==
    [procs |-> {1}, protocols |-> {"pickle"}, backends |-> {"serving", "random"},
     names |-> {"x"}, funcs |-> {"uniform"}, values |-> {1, 2}, memos |-> {},
     rewards |-> {Loss(Number(1)), Loss(Number(2)), Gain(Number(1)),
                  Loss(Array(0, 1)), Loss(Array(2, 1))},
     elapsed |-> {1}, commits |-> MaxCommits - 1,
     nonstrings |-> {}, damage |-> FALSE]

\* names that are empty or no strings, and a func the backend has no
\* distribution for
NamesScope ==
    [procs |-> {1}, protocols |-> {"pickle"}, backends |-> {"random"},
     names |-> {"", "x"}, funcs |-> {"uniform", "bogus"}, values |-> {1},
     memos |-> {}, rewards |-> {Loss(Number(1))}, elapsed |-> {1},
     commits |-> MaxCommits - 2, nonstrings |-> {7}, damage |-> FALSE]

\* something other than a session writes the data file
FormatScope ==
    [procs |-> {1}, protocols |-> {"pickle"}, backends |-> {"random"},
     names |-> {"x"}, funcs |-> {"uniform"}, values |-> {1},
     memos |-> {}, rewards |-> {Loss(Number(1))}, elapsed |-> {1},
     commits |-> MaxCommits - 1, nonstrings |-> {}, damage |-> TRUE]

Scopes == {StoreScope, CodecScope, ParamsScope, ValuesScope, NamesScope, FormatScope}

\* Everything any universe may pass
Backends == UNION {s.backends : s \in Scopes}
Names == UNION {s.names : s \in Scopes}
Funcs == UNION {s.funcs : s \in Scopes}
Values == UNION {s.values : s \in Scopes}
Memos == UNION {s.memos : s \in Scopes}
Rewards == UNION {s.rewards : s \in Scopes}
NonStrings == UNION {s.nonstrings : s \in Scopes}

VARIABLES
    scope,            \* the universe the calls of this behaviour are drawn from
    protocol,         \* self._protocol, the same for every session of the file
    file,             \* the bytes of the data file
    holders,          \* the processes inside a Lock(...) scope on the file
    now,              \* the last reading of time.time()
    pc,               \* where each process is
    backend,          \* self.backend
    old_params,       \* self._old_params
    new_params,       \* self._new_params
    examples,         \* self._examples
    current_example,  \* self._current_example
    result,           \* the last call of each process and how it ended
    saves,            \* _save_data calls made so far
    lock_order,       \* history: the timestamps in lock-acquisition order
    committed,        \* history: the examples written by their own commit
    before,           \* history: what the commit in progress read from the file
    failed            \* history: a call raised a storage error, or the file was damaged

vars == <<scope, protocol, file, holders, now, pc, backend, old_params,
          new_params, examples, current_example, result, saves, lock_order,
          committed, before, failed>>

\* ------------------------------------------------------------ dictionaries
EmptyDict == [k \in {} |-> 0]

\* d.update(u): the keys of u win
Update(d, u) == u @@ d

InSeq(x, s) == \E i \in 1..Len(s) : s[i] = x

NewExample == "values" :> EmptyDict

\* ---------------------------------------------------------------- codec
EmptyFile == [kind |-> "empty", params |-> EmptyDict, examples |-> <<>>]
MalformedFile == [kind |-> "malformed", params |-> EmptyDict, examples |-> <<>>]

\* json has no tuples: json.dumps writes a tuple as an array and json.loads
\* reads every array back as a list
JsonValue(v) == IF v.form = "tuple" THEN [v EXCEPT !.form = "list"] ELSE v

JsonExample(ex) ==
    [k \in DOMAIN ex |->
        IF k \in {"loss", "gain"} THEN JsonValue(ex[k])
        ELSE IF k = "memo" THEN [m \in DOMAIN ex[k] |-> JsonValue(ex[k][m])]
        ELSE ex[k]]

Encodable(data) ==
    \A i \in 1..Len(data.examples) :
        "memo" \in DOMAIN data.examples[i] =>
            \A m \in DOMAIN data.examples[i]["memo"] :
                data.examples[i]["memo"][m].form # "opaque"

Dumps(data) ==
    IF protocol = "json"
    THEN [kind |-> "data", params |-> data.params,
          examples |-> [i \in 1..Len(data.examples) |-> JsonExample(data.examples[i])]]
    ELSE [kind |-> "data", params |-> data.params, examples |-> data.examples]

Loads(contents) == [params |-> contents.params, examples |-> contents.examples]

\* ------------------------------------------------------------ the session
GotLoss(ex) == "loss" \in DOMAIN ex

GotGain(ex) == "gain" \in DOMAIN ex

GotReward(ex) == "loss" \in DOMAIN ex \/ "gain" \in DOMAIN ex

IsRandom(p) == backend[p].name = "random"

IsServing(p) == backend[p].name = "serving"

RECURSIVE TellExamples(_, _)
TellExamples(exs, new) ==
    IF new = <<>> THEN exs
    ELSE TellExamples(IF InSeq(Head(new), exs) THEN exs ELSE Append(exs, Head(new)),
                      Tail(new))

\* _load_from: the pattern match fails on anything but {params, examples}
LoadFromAcceptsAll(contents) == FALSE

LoadFromFails(contents) == contents.kind = "malformed"

LoadFromParams(contents, old) ==
    IF contents.kind = "empty" THEN old ELSE Loads(contents).params

LoadFromExamples(contents, exs) ==
    IF contents.kind = "empty" THEN exs
    ELSE TellExamples(exs, Loads(contents).examples)

\* denumpy_all on an accepted reward: a number stays a number, a rank-1
\* array was made a tuple by _set_reward
RewardValue(value) ==
    IF value.ndarray THEN [form |-> "tuple", v |-> value.v]
    ELSE [form |-> "num", v |-> value.v]

Outcome(op, err) == [op |-> op, err |-> err]

\* ------------------------------------------------------------- strategies
\* util.best_example: the first example with the least loss (a gain g
\* counts as the loss -g); {"values": {}} when no example has a reward
RewardKey(ex) == IF "loss" \in DOMAIN ex THEN ex["loss"].v ELSE 0 - ex["gain"].v

IsBest(exs, i) ==
    /\ GotReward(exs[i])
    /\ \A j \in 1..Len(exs) : GotReward(exs[j]) =>
            \/ RewardKey(exs[i]) < RewardKey(exs[j])
            \/ RewardKey(exs[i]) = RewardKey(exs[j]) /\ i <= j

best_example(exs) ==
    IF \E i \in 1..Len(exs) : IsBest(exs, i)
    THEN exs[CHOOSE i \in 1..Len(exs) : IsBest(exs, i)]
    ELSE NewExample

\* init_backend: the serving backend keeps the values of the best example
\* known when it is constructed; the random backend keeps nothing
init_backend(name, exs) ==
    [name |-> name,
     values |-> IF name = "serving" THEN best_example(exs)["values"] ELSE EmptyDict]

\* backend.param: the serving backend replays the best known value and
\* falls back to a draw for a name it has never seen; random draws
BackendParam(p, name) ==
    IF IsServing(p) /\ name \in DOMAIN backend[p].values
    THEN {backend[p].values[name]}
    ELSE scope.values

\* backend.param raises for a func the backend has no distribution for
BackendSupports(func) == func \in {"uniform", "choice"}

\* run(alg=None) at the end of reload: alg_registry[None] is the serving
\* backend
RunDefaultAlg == "random"

ReloadAlg == "serving"

\* ------------------------------------------------------------------- lock
\* portalocker.Lock: an exclusive lock, granted only while nobody holds it
LockNotExclusive(p) == TRUE

LockAvailable(p) == holders = {}

\* Lock(..., timeout=lock_timeout): the wait ends with LockException once
\* another holder has kept the lock for the whole timeout
LockNeverTimesOut(p) == FALSE

LockTimesOut(p) == ~LockAvailable(p)

\* ------------------------------------------------------------------- Init
Init ==
    /\ scope \in Scopes
    /\ protocol \in scope.protocols
    /\ file = EmptyFile
    /\ holders = {}
    /\ now = 0
    /\ pc = [p \in Procs |-> "idle"]
    /\ backend = [p \in Procs |-> init_backend(ReloadAlg, <<>>)]
    /\ old_params = [p \in Procs |-> EmptyDict]
    /\ new_params = [p \in Procs |-> EmptyDict]
    /\ examples = [p \in Procs |-> <<>>]
    /\ current_example = [p \in Procs |-> NewExample]
    /\ result = [p \in Procs |-> Outcome("reload", "none")]
    /\ saves = 0
    /\ lock_order = <<>>
    /\ committed = {}
    /\ before = EmptyFile
    /\ failed = FALSE

\* ---------------------------------------------------------------- actions
\* run_backend (run looks the backend up in alg_registry and calls it)
RunBackend(p, b) ==
    /\ p \in scope.procs /\ b \in scope.backends
    /\ pc[p] = "idle"
    /\ backend' = [backend EXCEPT ![p] = init_backend(b, examples[p])]
    /\ new_params' = [new_params EXCEPT ![p] = EmptyDict]
    /\ current_example' = [current_example EXCEPT ![p] = NewExample]
    /\ result' = [result EXCEPT ![p] = Outcome("run", "none")]
    /\ UNCHANGED <<scope, protocol, file, holders, now, pc, old_params, examples,
                   saves, lock_order, committed, before>>
    /\ UNCHANGED failed

\* _param: name in self._new_params
ExistsInOldParams(p, name) == name \in DOMAIN old_params[p]

AlreadyExists(p, name) == name \in DOMAIN new_params[p]

\* _param, behind every declare-parameter entry point
Param(p, name, func, value) ==
    /\ p \in scope.procs /\ name \in scope.names /\ func \in scope.funcs
    /\ value \in scope.values
    /\ pc[p] = "idle"
    /\ IF GotReward(current_example[p])
       THEN /\ result' = [result EXCEPT ![p] = Outcome("param", "ValueError")]
            /\ UNCHANGED <<new_params, current_example>>
       ELSE IF AlreadyExists(p, name)
       THEN /\ result' = [result EXCEPT ![p] = Outcome("param", "ValueError")]
            /\ UNCHANGED <<new_params, current_example>>
       ELSE IF ~BackendSupports(func)
       THEN /\ result' = [result EXCEPT ![p] = Outcome("param", "BackendError")]
            /\ UNCHANGED <<new_params, current_example>>
       ELSE /\ value \in BackendParam(p, name)
            /\ new_params' = [new_params EXCEPT ![p] = (name :> func) @@ @]
            /\ current_example' = [current_example EXCEPT ![p] =
                    ("values" :> ((name :> value) @@ @["values"])) @@ @]
            /\ result' = [result EXCEPT ![p] = Outcome("param", "none")]
    /\ UNCHANGED <<scope, protocol, file, holders, now, pc, backend, old_params,
                   examples, saves, lock_order, committed, before>>
    /\ UNCHANGED failed

\* _param with a name that is no string
ParamNotStr(p, name) ==
    /\ p \in scope.procs /\ name \in scope.nonstrings
    /\ pc[p] = "idle"
    /\ result' = [result EXCEPT ![p] =
            Outcome("param", IF GotReward(current_example[p]) THEN "ValueError"
                             ELSE "TypeError")]
    /\ UNCHANGED <<scope, protocol, file, holders, now, pc, backend, old_params,
                   new_params, examples, current_example, saves, lock_order,
                   committed, before>>
    /\ UNCHANGED failed

\* remember
Remember(p, info) ==
    /\ p \in scope.procs /\ \A k \in DOMAIN info : info[k] \in scope.memos
    /\ pc[p] = "idle"
    /\ IF GotReward(current_example[p])
       THEN /\ result' = [result EXCEPT ![p] = Outcome("remember", "ValueError")]
            /\ UNCHANGED current_example
       ELSE /\ current_example' = [current_example EXCEPT ![p] =
                    ("memo" :> Update(IF "memo" \in DOMAIN @ THEN @["memo"] ELSE EmptyDict,
                                      info)) @@ @]
            /\ result' = [result EXCEPT ![p] = Outcome("remember", "none")]
    /\ UNCHANGED <<scope, protocol, file, holders, now, pc, backend, old_params,
                   new_params, examples, saves, lock_order, committed, before>>
    /\ UNCHANGED failed

\* get_data
GetData(p) ==
    /\ p \in scope.procs /\ scope.names # {}
    /\ pc[p] = "idle"
    /\ old_params' = [old_params EXCEPT ![p] = Update(@, new_params[p])]
    /\ result' = [result EXCEPT ![p] = Outcome("get_data", "none")]
    /\ UNCHANGED <<scope, protocol, file, holders, now, pc, backend, new_params,
                   examples, current_example, saves, lock_order, committed, before>>
    /\ UNCHANGED failed

\* _set_reward, behind minimize and maximize; a backend that is not the
\* serving one goes on to _save_data, which first waits for the lock
SetReward(p, reward_type, value) ==
    /\ p \in scope.procs
    /\ [reward_type |-> reward_type, value |-> value] \in scope.rewards
    /\ pc[p] = "idle"
    /\ IF GotReward(current_example[p])
       THEN /\ result' = [result EXCEPT ![p] = Outcome("set_reward", "ValueError")]
            /\ UNCHANGED <<current_example, pc>>
       ELSE IF value.ndarray /\ value.rank # 1
       THEN /\ result' = [result EXCEPT ![p] = Outcome("set_reward", "ValueError")]
            /\ UNCHANGED <<current_example, pc>>
       ELSE /\ current_example' = [current_example EXCEPT ![p] =
                    (reward_type :> RewardValue(value)) @@ @]
            /\ IF IsServing(p)
               THEN /\ result' = [result EXCEPT ![p] = Outcome("set_reward", "none")]
                    /\ UNCHANGED pc
               ELSE IF "timestamp" \in DOMAIN current_example[p]
               THEN /\ result' = [result EXCEPT ![p] =
                            Outcome("set_reward", "AssertionError")]
                    /\ UNCHANGED pc
               ELSE /\ result' = [result EXCEPT ![p] = Outcome("set_reward", "pending")]
                    /\ pc' = [pc EXCEPT ![p] = "save_wait"]
    /\ saves' = IF pc'[p] = "save_wait" THEN saves + 1 ELSE saves
    /\ saves' <= scope.commits
    /\ UNCHANGED <<scope, protocol, file, holders, now, backend, old_params,
                   new_params, examples, lock_order, committed, before>>
    /\ UNCHANGED failed

\* _save_data, entering the Lock scope: the timestamp is read from the
\* clock (which may not have advanced since its last reading), the current
\* example is told, and the file is read again by _load_from
SaveAcquire(p, elapsed) ==
    /\ elapsed \in scope.elapsed
    /\ pc[p] = "save_wait"
    /\ LockAvailable(p)
    /\ now' = now + elapsed
    /\ lock_order' = Append(lock_order, now')
    /\ current_example' = [current_example EXCEPT ![p] = ("timestamp" :> now') @@ @]
    /\ IF LoadFromFails(file)
       THEN /\ examples' = [examples EXCEPT ![p] =
                    TellExamples(@, <<current_example'[p]>>)]
            /\ result' = [result EXCEPT ![p] = Outcome("set_reward", "MatchError")]
            /\ pc' = [pc EXCEPT ![p] = "idle"]
            /\ UNCHANGED <<old_params, holders>>
       ELSE /\ old_params' = [old_params EXCEPT ![p] = LoadFromParams(file, @)]
            /\ examples' = [examples EXCEPT ![p] =
                    LoadFromExamples(file, TellExamples(@, <<current_example'[p]>>))]
            /\ holders' = holders \cup {p}
            /\ pc' = [pc EXCEPT ![p] = "save_loaded"]
            /\ UNCHANGED result
    /\ UNCHANGED <<scope, protocol, file, backend, new_params, saves, committed>>
    /\ before' = IF LoadFromFails(file) THEN EmptyFile ELSE file
    /\ failed' = (failed \/ LoadFromFails(file))

\* clear_file(df)
SaveClear(p) ==
    /\ pc[p] = "save_loaded"
    /\ file' = EmptyFile
    /\ pc' = [pc EXCEPT ![p] = "save_cleared"]
    /\ UNCHANGED <<scope, protocol, holders, now, backend, old_params, new_params,
                   examples, current_example, result, saves, lock_order, committed, before>>
    /\ UNCHANGED failed

\* df.write(self._dumps(self.get_data())); sync_file(df); the Lock scope ends
SaveWrite(p) ==
    /\ pc[p] = "save_cleared"
    /\ old_params' = [old_params EXCEPT ![p] = Update(@, new_params[p])]
    /\ LET data == [params |-> old_params'[p], examples |-> examples[p]]
       IN IF Encodable(data)
          THEN /\ file' = Dumps(data)
               /\ committed' = committed \cup {Dumps(data).examples[
                        CHOOSE i \in 1..Len(examples[p]) :
                            examples[p][i] = current_example[p]]}
               /\ result' = [result EXCEPT ![p] = Outcome("set_reward", "none")]
          ELSE /\ result' = [result EXCEPT ![p] = Outcome("set_reward", "TypeError")]
               /\ UNCHANGED <<file, committed>>
    /\ holders' = holders \ {p}
    /\ pc' = [pc EXCEPT ![p] = "idle"]
    /\ UNCHANGED <<scope, protocol, now, backend, new_params, examples, current_example,
                   saves, lock_order>>
    /\ before' = EmptyFile
    /\ failed' = (failed \/ result'[p].err # "none")

\* the Lock of _save_data gives up: portalocker raises LockException
SaveTimeout(p) ==
    /\ pc[p] = "save_wait"
    /\ LockTimesOut(p)
    /\ result' = [result EXCEPT ![p] = Outcome("set_reward", "LockException")]
    /\ pc' = [pc EXCEPT ![p] = "idle"]
    /\ UNCHANGED <<scope, protocol, file, holders, now, backend, old_params, new_params,
                   examples, current_example, saves, lock_order, committed, before>>
    /\ failed' = TRUE

\* reload, up to the Lock of _load_data
Reload(p) ==
    /\ p \in scope.procs
    /\ pc[p] = "idle"
    /\ old_params' = [old_params EXCEPT ![p] = EmptyDict]
    /\ examples' = [examples EXCEPT ![p] = <<>>]
    /\ result' = [result EXCEPT ![p] = Outcome("reload", "pending")]
    /\ pc' = [pc EXCEPT ![p] = "load_wait"]
    /\ UNCHANGED <<scope, protocol, file, holders, now, backend, new_params,
                   current_example, saves, lock_order, committed, before>>
    /\ UNCHANGED failed

\* _load_data, entering the Lock scope
LoadAcquire(p) ==
    /\ pc[p] = "load_wait"
    /\ LockAvailable(p)
    /\ holders' = holders \cup {p}
    /\ pc' = [pc EXCEPT ![p] = "load_locked"]
    /\ UNCHANGED <<scope, protocol, file, now, backend, old_params, new_params, examples,
                   current_example, result, saves, lock_order, committed, before>>
    /\ UNCHANGED failed

\* _load_from(df) under the lock, then the Lock scope ends and reload
\* goes on to run(alg=None), which installs the serving backend
LoadRead(p) ==
    /\ pc[p] = "load_locked"
    /\ holders' = holders \ {p}
    /\ pc' = [pc EXCEPT ![p] = "idle"]
    /\ IF LoadFromFails(file)
       THEN /\ result' = [result EXCEPT ![p] = Outcome("reload", "MatchError")]
            /\ UNCHANGED <<old_params, examples, backend, new_params, current_example>>
       ELSE /\ old_params' = [old_params EXCEPT ![p] = LoadFromParams(file, @)]
            /\ examples' = [examples EXCEPT ![p] = LoadFromExamples(file, @)]
            /\ backend' = [backend EXCEPT ![p] = init_backend(ReloadAlg, examples'[p])]
            /\ new_params' = [new_params EXCEPT ![p] = EmptyDict]
            /\ current_example' = [current_example EXCEPT ![p] = NewExample]
            /\ result' = [result EXCEPT ![p] = Outcome("reload", "none")]
    /\ UNCHANGED <<scope, protocol, file, now, saves, lock_order, committed, before>>
    /\ failed' = (failed \/ LoadFromFails(file))

\* the Lock of _load_data gives up: portalocker raises LockException
LoadTimeout(p) ==
    /\ pc[p] = "load_wait"
    /\ LockTimesOut(p)
    /\ result' = [result EXCEPT ![p] = Outcome("reload", "LockException")]
    /\ pc' = [pc EXCEPT ![p] = "idle"]
    /\ UNCHANGED <<scope, protocol, file, holders, now, backend, old_params, new_params,
                   examples, current_example, saves, lock_order, committed, before>>
    /\ failed' = TRUE

\* a writer that is no session leaves a payload of another shape
Damage ==
    /\ scope.damage
    /\ holders = {}
    /\ file # MalformedFile
    /\ file' = MalformedFile
    /\ UNCHANGED <<scope, protocol, holders, now, pc, backend, old_params, new_params,
                   examples, current_example, result, saves, lock_order, committed,
                   before>>
    /\ failed' = TRUE

\* ------------------------------------------------------------ specification
Next ==
    \/ Damage
    \/ \E p \in Procs :
        \/ \E b \in Backends : RunBackend(p, b)
        \/ \E name \in NonStrings : ParamNotStr(p, name)
        \/ \E name \in Names, func \in Funcs, value \in Values :
                Param(p, name, func, value)
        \/ \E info \in Memos : Remember(p, "k" :> info)
        \/ \E reward \in Rewards : SetReward(p, reward.reward_type, reward.value)
        \/ GetData(p)
        \/ \E elapsed \in 0..1 : SaveAcquire(p, elapsed)
        \/ SaveClear(p)
        \/ SaveWrite(p)
        \/ SaveTimeout(p)
        \/ Reload(p)
        \/ LoadAcquire(p)
        \/ LoadRead(p)
        \/ LoadTimeout(p)

Spec == Init /\ [][Next]_vars

\* portalocker polls the lock until it gets it or the timeout has passed,
\* so a waiting process does not wait forever; a process inside a lock
\* scope may stay there for as long as it likes
Fairness ==
    \A p \in Procs :
        /\ WF_vars(LoadAcquire(p) \/ LoadTimeout(p))
        /\ WF_vars((\E elapsed \in 0..1 : SaveAcquire(p, elapsed)) \/ SaveTimeout(p))

LiveSpec == Init /\ [][Next]_vars /\ Fairness

\* ------------------------------------------------------------- properties
\* What the properties observe of a step or a state
Rewarded(p) ==
    "loss" \in DOMAIN current_example[p] \/ "gain" \in DOMAIN current_example[p]

Serving(p) == backend[p].name = "serving"

InLockScope(p) == pc[p] \in {"load_locked", "save_loaded", "save_cleared"}

Waiting(p) == pc[p] \in {"load_wait", "save_wait"}

Committing(p) == pc[p] \in {"save_wait", "save_loaded", "save_cleared"}

\* the step ends a commit of p with its data written
CommitSucceeds(p) ==
    pc[p] = "save_cleared" /\ pc'[p] = "idle" /\ result'[p].err = "none"

\* the step ends a commit of p with an exception
CommitFails(p) == Committing(p) /\ pc'[p] = "idle" /\ result'[p].err # "none"

\* the step ends a load of p with the history read
LoadSucceeds(p) ==
    pc[p] = "load_locked" /\ pc'[p] = "idle" /\ result'[p].err = "none"

NoDuplicates(exs) ==
    \A i, j \in 1..Len(exs) : exs[i] = exs[j] => i = j

NonDecreasing(ts) == \A i, j \in 1..Len(ts) : i <= j => ts[i] <= ts[j]

\* C1: every example written by its own successful commit is still in the
\* file after every later successful commit by any process
C1_NoLostUpdates ==
    [][\A p \in Procs : CommitSucceeds(p) =>
            \A ex \in committed : InSeq(ex, file'.examples)]_vars

\* C2: at most one process is inside a lock scope at any time, and nobody
\* is about to read the file while a commit has truncated it and has not
\* yet rewritten it
C2_MutualExclusion ==
    \A p, q \in Procs :
        p # q =>
            /\ ~(InLockScope(p) /\ InLockScope(q))
            /\ ~(pc[p] = "load_locked" /\ pc[q] = "save_cleared")

C2_Witness ==
    \E p, q \in Procs : pc[p] = "save_cleared" /\ Waiting(q) /\ committed # {}

\* C3: once each of the N processes has made its one commit to the
\* initially empty file, the file holds exactly N examples and the
\* timestamps are non-decreasing in lock-acquisition order
C3_ConcurrentCommits ==
    (/\ scope = StoreScope
     /\ saves = NumProcs
     /\ \A p \in Procs : pc[p] = "idle" /\ result[p] = Outcome("set_reward", "none"))
        => /\ Len(file.examples) = NumProcs
           /\ NonDecreasing(lock_order)

\* C4: a commit that ends with an error leaves the file as it was before
\* the commit began
C4_FailedCommitLeavesFile ==
    [][\A p \in Procs : CommitFails(p) =>
            file' = IF pc[p] = "save_cleared" THEN before ELSE file]_vars

\* C5: neither a process's examples nor the file's examples ever hold two
\* structurally equal entries
C5_NoDuplicateExamples ==
    /\ NoDuplicates(file.examples)
    /\ \A p \in Procs : NoDuplicates(examples[p])

\* the on-disk form of an example
OnDisk(ex) == Dumps([params |-> EmptyDict, examples |-> <<ex>>]).examples[1]

\* C6: once the current run has a reward, every later declare, remember
\* and set_reward call on it raises ValueError and leaves the run and the
\* file as they are, and no commit starts, until run or reload is called
C6_RewardedIsTerminal ==
    [][\A p \in Procs :
        (pc[p] = "idle" /\ Rewarded(p)) =>
            \/ result'[p] # result[p] /\ result'[p].op \in {"run", "reload"}
            \/ /\ current_example'[p] = current_example[p]
               /\ new_params'[p] = new_params[p]
               /\ pc'[p] = "idle"
               /\ result'[p] # result[p] =>
                    /\ file' = file
                    /\ result'[p].op \in {"param", "remember", "set_reward"} =>
                            result'[p].err = "ValueError"]_vars

C6_Witness ==
    \E p \in Procs :
        /\ Rewarded(p) /\ file.kind = "data"
        /\ result[p] = Outcome("set_reward", "ValueError")

\* C7: under the serving backend set_reward seals the run and neither
\* writes the file nor touches the loaded history; under any other backend
\* it starts a commit, and a commit that succeeds has written the run
C7_ServingNeverWrites ==
    [][\A p \in Procs :
        /\ (pc[p] = "idle" /\ ~Rewarded(p) /\ Rewarded(p)') =>
                IF Serving(p)
                THEN /\ pc'[p] = "idle"
                     /\ result'[p] = Outcome("set_reward", "none")
                     /\ file' = file
                     /\ examples'[p] = examples[p]
                     /\ old_params'[p] = old_params[p]
                ELSE pc'[p] = "save_wait"
        /\ CommitSucceeds(p) =>
                /\ ~Serving(p)
                /\ InSeq(OnDisk(current_example[p]), file'.examples)]_vars

C7_Witness ==
    \E p \in Procs :
        /\ Serving(p) /\ Rewarded(p) /\ pc[p] = "idle"
        /\ result[p] = Outcome("set_reward", "none")
        /\ file.kind = "data"

\* C8: after a successful commit the file's params are the params the
\* commit read from the file, overridden by the run's own definitions
C8_ParamsMerge ==
    [][\A p \in Procs : CommitSucceeds(p) =>
            file'.params = Update(before.params, new_params[p])]_vars

\* C9: a process waiting for the lock stops waiting; while somebody else
\* holds the lock the only way out is LockException, raised to the caller
\* with the file untouched and the call not started again
C9_BoundedLockWait ==
    /\ \A p \in Procs : Waiting(p) ~> ~Waiting(p)
    /\ [][\A p \in Procs :
            (Waiting(p) /\ holders # {} /\ pc'[p] # pc[p]) =>
                /\ pc'[p] = "idle"
                /\ result'[p].err = "LockException"
                /\ file' = file]_vars

C9_Witness ==
    \E p, q \in Procs :
        /\ result[p].err = "LockException" /\ pc[p] = "idle"
        /\ InLockScope(q)

\* C10: a load that gets the lock after a commit reads a history holding
\* that commit's example, and the serving backend then hands out the value
\* the best loaded example has for a declared name
C10_ReadYourWrites ==
    [][\A p \in Procs :
        /\ LoadSucceeds(p) => \A ex \in committed : InSeq(ex, examples'[p])
        /\ (/\ pc[p] = "idle" /\ Serving(p)
            /\ result'[p] = Outcome("param", "none")
            /\ current_example'[p] # current_example[p]) =>
                \A name \in DOMAIN current_example'[p]["values"] :
                    (/\ name \notin DOMAIN current_example[p]["values"]
                     /\ name \in DOMAIN best_example(examples[p])["values"]) =>
                        current_example'[p]["values"][name] =
                            best_example(examples[p])["values"][name]]_vars

\* p's run or run_backend call returns in this step
RunReturns(p) ==
    /\ pc[p] = "idle" /\ result'[p] = Outcome("run", "none")
    /\ <<result'[p], backend'[p], current_example'[p], new_params'[p]>>
            # <<result[p], backend[p], current_example[p], new_params[p]>>

\* C11: run / run_backend leaves the current run as {values: {}} and the
\* run's definitions empty, keeps examples, known params and the file, and
\* a later commit writes no definition that it neither read from the file
\* nor declared in its own run
C11_RunResetsCurrentRun ==
    [][\A p \in Procs :
        /\ RunReturns(p) =>
                /\ current_example'[p] = NewExample
                /\ new_params'[p] = EmptyDict
                /\ examples'[p] = examples[p]
                /\ old_params'[p] = old_params[p]
                /\ file' = file
        /\ CommitSucceeds(p) =>
                DOMAIN file'.params \subseteq
                    (DOMAIN before.params \cup DOMAIN new_params[p])]_vars

\* p's _load_from runs in this step, in a load or in a commit
ReadsFile(p) ==
    \/ pc[p] = "load_locked" /\ pc'[p] = "idle"
    \/ pc[p] = "save_wait" /\ "timestamp" \in DOMAIN current_example'[p]

get_optimal_run(p) == best_example(examples[p])

\* C13: get_optimal_run returns the first recorded example with the best
\* reward, and what it returns with a reward is an example some commit
\* wrote, never a run that was not committed
C13_OptimalRunIsCommitted ==
    \A p \in Procs : pc[p] = "idle" =>
        /\ (\E i \in 1..Len(examples[p]) : GotReward(examples[p][i])) =>
                \E i \in 1..Len(examples[p]) :
                    /\ get_optimal_run(p) = examples[p][i]
                    /\ \A j \in 1..Len(examples[p]) : GotReward(examples[p][j]) =>
                            \/ RewardKey(examples[p][i]) < RewardKey(examples[p][j])
                            \/ RewardKey(examples[p][i]) = RewardKey(examples[p][j]) /\ i <= j
        /\ GotReward(get_optimal_run(p)) => OnDisk(get_optimal_run(p)) \in committed

\* p's _param call ends in this step
ParamReturns(p) ==
    /\ pc[p] = "idle" /\ result'[p].op = "param"
    /\ <<result'[p], current_example'[p], new_params'[p]>>
            # <<result[p], current_example[p], new_params[p]>>

\* C14: a _param call that raises (the name is already declared in this
\* run, or backend.param fails) changes neither the run's values nor its
\* definitions; one that returns adds exactly one name that was not there,
\* so a name declared in a run keeps its first definition and value
C14_DeclaredOnce ==
    [][\A p \in Procs : ParamReturns(p) =>
        /\ \A name \in DOMAIN new_params[p] :
                /\ name \in DOMAIN new_params'[p]
                /\ new_params'[p][name] = new_params[p][name]
                /\ current_example'[p]["values"][name] = current_example[p]["values"][name]
        /\ result'[p].err # "none" =>
                /\ current_example'[p] = current_example[p]
                /\ new_params'[p] = new_params[p]
        /\ result'[p].err = "none" =>
                \E name \in Names \ DOMAIN new_params[p] :
                    /\ DOMAIN new_params'[p] = DOMAIN new_params[p] \cup {name}
                    /\ DOMAIN current_example'[p]["values"] =
                            DOMAIN current_example[p]["values"] \cup {name}]_vars

C14_Witness ==
    \E p \in Procs :
        /\ result[p] = Outcome("param", "ValueError")
        /\ ~Rewarded(p)
        /\ new_params[p] # EmptyDict

\* C15: no run ever holds a definition or a value under the empty name
C15_NoEmptyName ==
    \A p \in Procs :
        /\ "" \notin DOMAIN new_params[p]
        /\ "" \notin DOMAIN current_example[p]["values"]

\* C16: a _set_reward call on a run without a reward is refused exactly
\* when the value is an array of rank greater than 1, and then the run
\* stays without a reward and nothing is committed; any other value is
\* taken as the reward
C16_RewardRank ==
    [][\A p \in Procs, reward \in Rewards :
        (SetReward(p, reward.reward_type, reward.value) /\ ~Rewarded(p)) =>
            IF reward.value.ndarray /\ reward.value.rank > 1
            THEN /\ result'[p] = Outcome("set_reward", "ValueError")
                 /\ current_example'[p] = current_example[p]
                 /\ pc'[p] = "idle"
                 /\ file' = file
            ELSE /\ reward.reward_type \in DOMAIN current_example'[p]
                 /\ result'[p].err # "ValueError"]_vars

\* C17: the assertion at the start of _save_data never fails, a run
\* waiting to commit has no timestamp yet, and a timestamp once given to a
\* run is never replaced
C17_CommittedOnce ==
    [][\A p \in Procs :
        /\ result'[p].err # "AssertionError"
        /\ pc'[p] = "save_wait" => "timestamp" \notin DOMAIN current_example'[p]
        /\ ("timestamp" \in DOMAIN current_example[p]
                /\ "timestamp" \in DOMAIN current_example'[p]) =>
                current_example'[p]["timestamp"] = current_example[p]["timestamp"]]_vars

C17_Witness ==
    \E p \in Procs :
        /\ "timestamp" \in DOMAIN current_example[p]
        /\ result[p] = Outcome("set_reward", "ValueError")
        /\ ~Serving(p)

\* C18: a session whose last call is its construction or a reload that
\* returned has the serving backend, the current run {values: {}} and no
\* definitions, and a reward set in that state starts no commit and leaves
\* the file alone
C18_ServingAfterReload ==
    /\ [](\A p \in Procs : result[p] = Outcome("reload", "none") =>
            /\ Serving(p)
            /\ current_example[p] = NewExample
            /\ new_params[p] = EmptyDict)
    /\ [][\A p \in Procs :
            (result[p] = Outcome("reload", "none") /\ Rewarded(p)') =>
                /\ pc'[p] = "idle"
                /\ result'[p] = Outcome("set_reward", "none")
                /\ file' = file]_vars

C18_Witness ==
    \E p \in Procs :
        /\ "serving" \notin scope.backends
        /\ file.kind = "data"
        /\ Serving(p) /\ Rewarded(p)
        /\ result[p] = Outcome("set_reward", "none")

\* C19: the file's examples are in the order of their timestamps, that
\* is, in the order in which their commits took the lock
C19_FileInCommitOrder ==
    \A i, j \in 1..Len(file.examples) :
        i < j => file.examples[i]["timestamp"] <= file.examples[j]["timestamp"]

\* every example p holds in memory is in the file
MemoryInFile(p) == \A i \in 1..Len(examples[p]) : InSeq(examples[p][i], file.examples)

\* C20: as long as no storage error has happened, every example in the
\* memory of a process outside the lock scope is in the file (read while
\* no commit is between clearing and writing it), and right after a load
\* or a commit the examples in memory are the file's examples
C20_MemoryMatchesFile ==
    /\ [](~failed =>
            \A p \in Procs :
                (~InLockScope(p) /\ \A q \in Procs : pc[q] # "save_cleared") =>
                    MemoryInFile(p))
    /\ [][\A p \in Procs :
            (~failed' /\ (CommitSucceeds(p) \/ LoadSucceeds(p))) =>
                examples'[p] = file'.examples]_vars

\* p's get_data call returns in this step
GetDataReturns(p) ==
    /\ pc[p] = "idle" /\ result'[p] = Outcome("get_data", "none")
    /\ <<result'[p], old_params'[p]>> # <<result[p], old_params[p]>>

\* C21: a get_data call leaves the known params, the run's definitions,
\* the examples, the current run and the file as they were
C21_GetDataIsPure ==
    [][\A p \in Procs : GetDataReturns(p) =>
        /\ old_params'[p] = old_params[p]
        /\ new_params'[p] = new_params[p]
        /\ examples'[p] = examples[p]
        /\ current_example'[p] = current_example[p]
        /\ file' = file]_vars

====
